---- MODULE Spec2Model ----
(***************************************************************************)
(* Adaptive CSV dashboard (src/app.py): one rendering pass of the script   *)
(* is a walk through the code positions read -> schema -> sidebar ->       *)
(* date filter -> empty check -> KPIs -> time series -> grouped bar ->     *)
(* distribution.  Widget values are inputs read where the code reads them. *)
(***************************************************************************)
EXTENDS Integers, Sequences, FiniteSets, TLC

(* ------------------------------ bounds --------------------------------- *)
\* rows of an uploaded table
MaxRows == 2
\* aggregated rows handed to the paged panel in PageSpec
MaxGroups == 16

(* ------------------------------ cells ---------------------------------- *)
\* A cell of a DataFrame: an int64, a text (object), a parsed Timestamp
\* (n = calendar day counted from 1970-01-01, t = nanoseconds into the day)
\* or a missing value (NaN / None / NaT).
IntCell(x) == [k |-> "int", s |-> "", n |-> x, t |-> 0]
StrCell(x) == [k |-> "str", s |-> x, n |-> 0, t |-> 0]
DtCell(d, tod) == [k |-> "dt", s |-> "", n |-> d, t |-> tod]
Null == [k |-> "null", s |-> "", n |-> 0, t |-> 0]

\* column names after cleaning (the sample schema of the uploaded files)
Columns == {"date", "region", "amount"}

\* the cells uploaded files are made of
AmountCells == {IntCell(1), IntCell(2)}
RegionCells == {StrCell("east"), StrCell("west"), Null}
DateCells == {StrCell("2024-01-01 00:00:00"), StrCell("2024-01-01 00:00:01"),
              StrCell("2024-01-03 00:00:00"), StrCell("bad")}
\* every combination, plus one row whose amount is text (the column is then
\* of object dtype and the table has no numeric column)
Rows ==
  [date : DateCells, region : RegionCells, amount : AmountCells]
    \cup {[date |-> StrCell("2024-01-01 00:00:00"), region |-> StrCell("east"),
           amount |-> StrCell("ten")]}

Tables == UNION {[1..n -> Rows] : n \in 0..MaxRows}

\* An uploaded file: whether its bytes decode as UTF-8, whether the decoded
\* text parses as CSV, and the table read_csv returns when it does.
\* (files that are not UTF-8 are sampled with at most one row)
Files ==
  [present : {TRUE}, utf8 : {TRUE}, csv : {TRUE}, table : Tables]
    \cup [present : {TRUE}, utf8 : {FALSE}, csv : {TRUE},
          table : {t \in Tables : Len(t) <= 1}]
    \cup [present : {TRUE}, utf8 : BOOLEAN, csv : {FALSE}, table : {<<>>}]
\* the uploader before any upload
NoFile == [present |-> FALSE, utf8 |-> FALSE, csv |-> FALSE, table |-> <<>>]

(* --------------------------- sequence helpers -------------------------- *)
Min(a, b) == IF a <= b THEN a ELSE b

RECURSIVE SumSeq(_)
SumSeq(q) == IF q = <<>> THEN 0 ELSE Head(q) + SumSeq(Tail(q))

RECURSIVE Concat(_)
Concat(qs) == IF qs = <<>> THEN <<>> ELSE Head(qs) \o Concat(Tail(qs))

(* ------------------------ schema inference ----------------------------- *)
\* select_dtypes(include="number"): a column read as int64, i.e. one whose
\* every cell is an integer (a table without rows has only object columns)
NumericCols(tbl) ==
  {c \in Columns : Len(tbl) > 0 /\ \A i \in 1..Len(tbl) : tbl[i][c].k = "int"}

(* --------------------------- date filtering ---------------------------- *)
\* what the date parser makes of the texts that occur (anything else fails);
\* 2024-01-01 is day 19723 counted from 1970-01-01
ParseText(x) ==
  IF x = "2024-01-01 00:00:00" THEN DtCell(19723, 0)
  ELSE IF x = "2024-01-01 00:00:01" THEN DtCell(19723, 1000000000)
  ELSE IF x = "2024-01-03 00:00:00" THEN DtCell(19725, 0)
  ELSE Null

\* faulty variant: a value that is already a Timestamp counts as unparseable
ToDatetimeTextOnly(c) ==
  IF c.k = "str" THEN ParseText(c.s)
  ELSE IF c.k = "int" THEN DtCell(0, c.n)
  ELSE Null

\* pd.to_datetime(errors="coerce") on one cell: a Timestamp stays, a text is
\* parsed or becomes NaT, an integer n is n nanoseconds after 1970-01-01
\* (the integers that occur are below one day), a missing value is NaT
ToDatetime(c) ==
  IF c.k = "dt" THEN c
  ELSE IF c.k = "str" THEN ParseText(c.s)
  ELSE IF c.k = "int" THEN DtCell(0, c.n)
  ELSE Null

\* filtered_df[date_col] = pd.to_datetime(...); dropna(subset=[date_col])
ParseAndDrop(tbl, dcol) ==
  LET parsed == [i \in 1..Len(tbl) |->
                   [tbl[i] EXCEPT ![dcol] = ToDatetime(tbl[i][dcol])]]
      Valid(r) == r[dcol].k # "null"
  IN SelectSeq(parsed, Valid)

\* .dt.date / .date(): the calendar day, time of day discarded
DateOf(c) == c.n

MinDate(tbl, dcol) ==
  CHOOSE d \in {DateOf(tbl[i][dcol]) : i \in 1..Len(tbl)} :
    \A i \in 1..Len(tbl) : d <= DateOf(tbl[i][dcol])
MaxDate(tbl, dcol) ==
  CHOOSE d \in {DateOf(tbl[i][dcol]) : i \in 1..Len(tbl)} :
    \A i \in 1..Len(tbl) : d >= DateOf(tbl[i][dcol])

\* the boolean mask of the range selection, both ends inclusive
RangeFilter(tbl, dcol, s, e) ==
  LET In(r) == DateOf(r[dcol]) >= s /\ DateOf(r[dcol]) <= e
  IN SelectSeq(tbl, In)

(* ----------------------- KPIs and aggregation -------------------------- *)
\* the integers of the metric column, in row order
Metric(tbl, vcol) == [i \in 1..Len(tbl) |-> tbl[i][vcol].n]

KpiMax(tbl, vcol) ==
  IF tbl = <<>> THEN 0
  ELSE CHOOSE m \in {tbl[i][vcol].n : i \in 1..Len(tbl)} :
         \A i \in 1..Len(tbl) : m >= tbl[i][vcol].n

\* sum, mean (as the exact fraction total / n) and max of the metric column
Kpis(tbl, vcol) ==
  [total |-> SumSeq(Metric(tbl, vcol)), n |-> Len(tbl), max |-> KpiMax(tbl, vcol)]

\* the lexicographic order of the texts that occur
TextOrder == <<"", "2024-01-01 00:00:00", "2024-01-01 00:00:01",
               "2024-01-03 00:00:00", "bad", "east", "ten", "west">>
TextRank(x) == CHOOSE i \in 1..Len(TextOrder) : TextOrder[i] = x

\* the order groupby(sort=True) puts the group keys in: ascending, the
\* missing key last
KeyLess(a, b) ==
  IF a.k = "null" THEN FALSE
  ELSE IF b.k = "null" THEN TRUE
  ELSE IF a.k = "str" THEN TextRank(a.s) < TextRank(b.s)
  ELSE a.n < b.n \/ (a.n = b.n /\ a.t < b.t)

RECURSIVE SortKeys(_)
SortKeys(S) ==
  IF S = {} THEN <<>>
  ELSE LET m == CHOOSE x \in S : \A y \in S \ {x} : KeyLess(x, y)
       IN <<m>> \o SortKeys(S \ {m})

\* faulty variant: the groupby default dropna=True, rows without a key are lost
GroupKeysDropNa(tbl, gcol) ==
  {tbl[i][gcol] : i \in 1..Len(tbl)} \ {Null}

\* the distinct keys of groupby(group_col, dropna=False)
GroupKeys(tbl, gcol) ==
  {tbl[i][gcol] : i \in 1..Len(tbl)}

\* groupby(gcol, dropna=False)[vcol].sum(): one (key, sum) per distinct key,
\* in key order
GroupBySum(tbl, gcol, vcol) ==
  LET keys == SortKeys(GroupKeys(tbl, gcol))
      Part(key) == LET Has(r) == r[gcol] = key IN SelectSeq(tbl, Has)
  IN [j \in 1..Len(keys) |->
        [key |-> keys[j], sum |-> SumSeq(Metric(Part(keys[j]), vcol))]]

\* the time series: groupby(date_col.dt.date)[vcol].sum(), ascending by date
SeriesByDate(tbl, dcol, vcol) ==
  LET days == {DateOf(tbl[i][dcol]) : i \in 1..Len(tbl)}
      keys == SortKeys({DtCell(d, 0) : d \in days})
      Part(d) == LET On(r) == DateOf(r[dcol]) = d IN SelectSeq(tbl, On)
  IN [j \in 1..Len(keys) |->
        [key |-> keys[j], sum |-> SumSeq(Metric(Part(keys[j].n), vcol))]]

Perms(n) == {f \in [1..n -> 1..n] : \A i, j \in 1..n : f[i] = f[j] => i = j}

\* faulty variant: ascending=True
SortValuesAsc(agg) ==
  {q \in {[i \in 1..Len(agg) |-> agg[f[i]]] : f \in Perms(Len(agg))} :
     \A i \in 1..Len(q) - 1 : q[i].sum <= q[i + 1].sum}

\* sort_values(vcol, ascending=False) with the default algorithm, which is
\* not stable: every arrangement with non-increasing sums is a possible
\* result, the order among equal sums is not fixed by the call
SortValuesDesc(agg) ==
  {q \in {[i \in 1..Len(agg) |-> agg[f[i]]] : f \in Perms(Len(agg))} :
     \A i \in 1..Len(q) - 1 : q[i].sum >= q[i + 1].sum}

(* ------------------------------ paging --------------------------------- *)
\* the positions of the "Bars per view" slider: 5 to 40 in steps of 5
BarsPerPageOptions == {5 * i : i \in 1..8}
\* its position in a session that has not moved it
DefaultBars == 15

\* faulty variant: a full last page counts one page too many
TotalPagesOffByOne(n, P) == n \div P + 1

\* (len(bar_df) - 1) // bars_per_page + 1, // rounding down
TotalPages(n, P) == (n - 1) \div P + 1

\* bar_df.iloc[start:end]: positions start .. end-1 counted from 0, cut off
\* at the end of the table
ILoc(q, start, end) ==
  IF start >= Len(q) THEN <<>> ELSE SubSeq(q, start + 1, Min(end, Len(q)))

\* the slice of page p: start = (p - 1) * P, end = start + P
PageSlice(q, p, P) == ILoc(q, (p - 1) * P, (p - 1) * P + P)

\* faulty variant: the slider keeps a stored position above its new maximum
PageSliderStale(stored, storedMax, max) ==
  IF stored >= 1 THEN stored ELSE 1

\* st.slider("Page", min_value=1, max_value=max, value=1): the position the
\* session stored for this slider while its range is the one it was last
\* drawn with, and the default 1 for a slider with another range
PageSlider(stored, storedMax, max) ==
  IF storedMax = max /\ stored \in 1..max THEN stored ELSE 1

\* lines 160-171 of the paged panel: the page count, the page the slider
\* yields and the slice shown
Paging(bar, P, stored, storedMax) ==
  LET tp == TotalPages(Len(bar), P)
      pg == PageSlider(stored, storedMax, tp)
  IN [total_pages |-> tp, page |-> pg, page_df |-> PageSlice(bar, pg, P)]

(* ------------------------------- state --------------------------------- *)
VARIABLES
  pc,             \* position of the script in the current pass
  file,           \* the uploader's file
  reads,          \* read_csv attempts of the current pass
  df,             \* the loaded table
  numeric_cols,
  value_col, group_col, date_col,
  stage,          \* "skipped", "date_empty" or "date_filtered" once the date filter ran
  filtered_df,
  start_date, end_date,
  fail,           \* the failure the pass stopped on, "none" otherwise
  message,        \* text of the st.error / st.warning the pass stopped with
  exception,      \* the exception that ended the pass unhandled, "none" otherwise
  out,            \* the elements drawn so far in the pass
  kpi, ts_df, bar_df,
  bars_per_page, total_pages, page, page_df,
  requested_page, \* the position the session held for the page slider when it was drawn
  slider_bars,    \* session state of the "Bars per view" slider
  slider_page, slider_max  \* session state of the page slider: position and range

loadVars == <<file, reads, df, numeric_cols>>
paramVars == <<value_col, group_col, date_col>>
filterVars == <<stage, filtered_df, start_date, end_date>>
haltVars == <<fail, message, exception>>
panelVars == <<kpi, ts_df>>
pageVars == <<bar_df, bars_per_page, total_pages, page, page_df,
              requested_page, slider_bars, slider_page, slider_max>>
vars == <<pc, loadVars, paramVars, filterVars, haltVars, out, panelVars, pageVars>>

NoKpi == [total |-> 0, n |-> 0, max |-> 0]
NoDataMsg == "No data available after filtering."
NoNumericMsg == "No numeric columns found in this CSV."
\* the text the pass shows when it stops on failure f
ReportOf(f) == IF f = "SchemaFailed" THEN NoNumericMsg ELSE NoDataMsg
Ended == {"done", "stopped", "crashed"}
\* the outputs of a pass that has a result
ResultOutputs == {"kpis", "ts_info", "ts_warning", "ts_chart",
                  "bar_warning", "bar_chart", "hist"}

\* the values of the script's names before the script assigns them
FreshLocals ==
  /\ reads' = 0
  /\ df' = <<>>
  /\ numeric_cols' = {}
  /\ value_col' = ""
  /\ group_col' = ""
  /\ date_col' = ""
  /\ stage' = ""
  /\ filtered_df' = <<>>
  /\ start_date' = 0
  /\ end_date' = 0
  /\ fail' = "none"
  /\ message' = ""
  /\ exception' = "none"
  /\ kpi' = NoKpi
  /\ ts_df' = <<>>
  /\ bar_df' = <<>>
  /\ bars_per_page' = 0
  /\ total_pages' = 0
  /\ page' = 0
  /\ page_df' = <<>>
  /\ requested_page' = 0

\* the app before any upload: the script ran once and drew the upload hint
Init ==
  /\ pc = "done"
  /\ file = NoFile
  /\ reads = 0
  /\ df = <<>>
  /\ numeric_cols = {}
  /\ value_col = ""
  /\ group_col = ""
  /\ date_col = ""
  /\ stage = ""
  /\ filtered_df = <<>>
  /\ start_date = 0
  /\ end_date = 0
  /\ fail = "none"
  /\ message = ""
  /\ exception = "none"
  /\ out = {"upload_info"}
  /\ kpi = NoKpi
  /\ ts_df = <<>>
  /\ bar_df = <<>>
  /\ bars_per_page = 0
  /\ total_pages = 0
  /\ page = 0
  /\ page_df = <<>>
  /\ requested_page = 0
  /\ slider_bars = DefaultBars
  /\ slider_page = 0
  /\ slider_max = 0

\* The session keeps a slider's position only while the slider is drawn;
\* between two passes the user may have moved the page slider within its range.
SessionCarriedOver ==
  IF "bar_chart" \in out
  THEN /\ slider_bars' = slider_bars
       /\ slider_max' = slider_max
       /\ \E p \in 1..slider_max : slider_page' = p
  ELSE /\ slider_bars' = DefaultBars
       /\ slider_max' = 0
       /\ slider_page' = 0

\* the user removes the file: the script runs again and draws the upload hint
ClearFile ==
  /\ pc \in Ended
  /\ file.present
  /\ file' = NoFile
  /\ pc' = "done"
  /\ out' = {"upload_info"}
  /\ FreshLocals
  /\ slider_bars' = DefaultBars
  /\ slider_max' = 0
  /\ slider_page' = 0

\* the user puts a file into the empty uploader: the script runs again from
\* the top (replacing a file is removing it and uploading the other)
Upload ==
  /\ pc \in Ended
  /\ ~file.present
  /\ \E f \in Files : file' = f
  /\ pc' = "read"
  /\ out' = {}
  /\ FreshLocals
  /\ SessionCarriedOver

\* the user changes a widget: the script runs again on the same file
Rerun ==
  /\ pc \in Ended
  /\ file.present
  /\ file' = file
  /\ pc' = "read"
  /\ out' = {}
  /\ FreshLocals
  /\ SessionCarriedOver

\* an exception nothing in the script catches ends the pass
Raise(exc) ==
  /\ pc' = "crashed"
  /\ exception' = exc
  /\ UNCHANGED <<fail, message>>

\* df is assigned, the column names are cleaned, the preview is drawn
Loaded ==
  /\ df' = file.table
  /\ out' = out \cup {"preview"}
  /\ pc' = "schema"
  /\ UNCHANGED haltVars

\* try: df = pd.read_csv(file)
ReadCsv ==
  /\ pc = "read"
  /\ reads' = reads + 1
  /\ IF ~file.utf8
     THEN /\ pc' = "read_latin1"
          /\ UNCHANGED <<df, out, haltVars>>
     ELSE IF file.csv
     THEN Loaded
     ELSE /\ Raise("ParserError")
          /\ UNCHANGED <<df, out>>
  /\ UNCHANGED <<file, numeric_cols, paramVars, filterVars, panelVars, pageVars>>

\* except UnicodeDecodeError: file.seek(0); df = pd.read_csv(file, encoding="latin1")
ReadCsvLatin1 ==
  /\ pc = "read_latin1"
  /\ reads' = reads + 1
  /\ IF file.csv
     THEN Loaded
     ELSE /\ Raise("ParserError")
          /\ UNCHANGED <<df, out>>
  /\ UNCHANGED <<file, numeric_cols, paramVars, filterVars, panelVars, pageVars>>

\* numeric_cols = ...; if not numeric_cols: st.error(...); st.stop()
DetectNumeric ==
  /\ pc = "schema"
  /\ numeric_cols' = NumericCols(df)
  /\ IF NumericCols(df) = {}
     THEN /\ fail' = "SchemaFailed"
          /\ message' = ReportOf("SchemaFailed")
          /\ pc' = "stopped"
     ELSE /\ pc' = "sidebar"
          /\ UNCHANGED <<fail, message>>
  /\ UNCHANGED <<file, reads, df, paramVars, filterVars, exception, out,
                 panelVars, pageVars>>

\* the three select boxes; filtered_df = df.copy()
Sidebar ==
  /\ pc = "sidebar"
  /\ \E v \in numeric_cols : value_col' = v
  /\ \E g \in Columns : group_col' = g
  /\ \E d \in {"None"} \cup Columns : date_col' = d
  /\ filtered_df' = df
  /\ pc' = "date_parse"
  /\ UNCHANGED <<loadVars, stage, start_date, end_date, haltVars, out,
                 panelVars, pageVars>>

\* if date_col != "None": to_datetime, dropna; the range picker is drawn only
\* when rows remain
DateParse ==
  /\ pc = "date_parse"
  /\ IF date_col = "None"
     THEN /\ stage' = "skipped"
          /\ filtered_df' = filtered_df
     ELSE /\ filtered_df' = ParseAndDrop(filtered_df, date_col)
          /\ stage' = IF ParseAndDrop(filtered_df, date_col) = <<>>
                      THEN "date_empty" ELSE "parsed"
  /\ pc' = IF stage' = "parsed" THEN "date_range" ELSE "empty_check"
  /\ UNCHANGED <<loadVars, paramVars, start_date, end_date, haltVars, out,
                 panelVars, pageVars>>

\* st.sidebar.date_input between min_date and max_date, then the mask
DateRange ==
  /\ pc = "date_range"
  /\ \E s, e \in MinDate(filtered_df, date_col)..MaxDate(filtered_df, date_col) :
       /\ s <= e
       /\ start_date' = s
       /\ end_date' = e
       /\ filtered_df' = RangeFilter(filtered_df, date_col, s, e)
  /\ stage' = "date_filtered"
  /\ pc' = "empty_check"
  /\ UNCHANGED <<loadVars, paramVars, haltVars, out, panelVars, pageVars>>

\* faulty variant: the warning is drawn but the script runs on
EmptyCheckNoStop ==
  /\ pc = "empty_check"
  /\ IF filtered_df = <<>>
     THEN /\ fail' = (IF stage = "date_empty" THEN "DateEmpty" ELSE "ResultEmpty")
          /\ message' = ReportOf(fail')
     ELSE UNCHANGED <<fail, message>>
  /\ pc' = "kpis"
  /\ UNCHANGED <<loadVars, paramVars, filterVars, exception, out, panelVars,
                 pageVars>>

\* if filtered_df.empty: st.warning(...); st.stop()
EmptyCheck ==
  /\ pc = "empty_check"
  /\ IF filtered_df = <<>>
     THEN /\ fail' = (IF stage = "date_empty" THEN "DateEmpty" ELSE "ResultEmpty")
          /\ message' = ReportOf(fail')
          /\ pc' = "stopped"
     ELSE /\ pc' = "kpis"
          /\ UNCHANGED <<fail, message>>
  /\ UNCHANGED <<loadVars, paramVars, filterVars, exception, out, panelVars,
                 pageVars>>

\* the three st.metric calls; .sum() of a datetime64 column raises TypeError
KeyMetrics ==
  /\ pc = "kpis"
  /\ IF \E i \in 1..Len(filtered_df) : filtered_df[i][value_col].k # "int"
     THEN /\ Raise("TypeError")
          /\ UNCHANGED <<kpi, out>>
     ELSE /\ kpi' = Kpis(filtered_df, value_col)
          /\ out' = out \cup {"kpis"}
          /\ pc' = "time_series"
          /\ UNCHANGED haltVars
  /\ UNCHANGED <<loadVars, paramVars, filterVars, ts_df, pageVars>>

\* panel 1: a hint without a date column, a warning below two dates, else the chart
TimeSeries ==
  /\ pc = "time_series"
  /\ IF date_col = "None"
     THEN /\ out' = out \cup {"ts_info"}
          /\ ts_df' = ts_df
     ELSE /\ ts_df' = SeriesByDate(filtered_df, date_col, value_col)
          /\ out' = out \cup {IF Len(ts_df') < 2 THEN "ts_warning" ELSE "ts_chart"}
  /\ pc' = "grouped_bar"
  /\ UNCHANGED <<loadVars, paramVars, filterVars, haltVars, kpi, pageVars>>

\* lines 149-187: the warning for an empty aggregation, else the two
\* sliders and the page drawn, after the elements `drawn`; bars, stored and
\* storedMax are the session's slider positions
PagedPanel(q, drawn, bars, stored, storedMax) ==
  /\ bar_df' = q
  /\ requested_page' = stored
  /\ IF q = <<>>
     THEN /\ out' = drawn \cup {"bar_warning"}
          /\ bars_per_page' = 0
          /\ total_pages' = 0
          /\ page' = 0
          /\ page_df' = <<>>
          /\ slider_bars' = DefaultBars
          /\ slider_page' = 0
          /\ slider_max' = 0
     ELSE LET pg == Paging(q, bars, stored, storedMax)
          IN /\ bars_per_page' = bars
             /\ total_pages' = pg.total_pages
             /\ page' = pg.page
             /\ page_df' = pg.page_df
             /\ slider_bars' = bars
             /\ slider_page' = pg.page
             /\ slider_max' = pg.total_pages
             /\ out' = drawn \cup {"bar_chart"}

\* panel 2: the aggregation and its paged chart; reset_index() raises
\* ValueError when the group column is the metric column
GroupedBar ==
  /\ pc = "grouped_bar"
  /\ IF group_col = value_col
     THEN /\ Raise("ValueError")
          /\ UNCHANGED <<out, pageVars>>
     ELSE /\ \E q \in SortValuesDesc(GroupBySum(filtered_df, group_col, value_col)) :
               PagedPanel(q, out, slider_bars, slider_page, slider_max)
          /\ pc' = "distribution"
          /\ UNCHANGED haltVars
  /\ UNCHANGED <<loadVars, paramVars, filterVars, panelVars>>

\* panel 3: the histogram of the metric column
Distribution ==
  /\ pc = "distribution"
  /\ out' = out \cup {"hist"}
  /\ pc' = "done"
  /\ UNCHANGED <<loadVars, paramVars, filterVars, haltVars, panelVars, pageVars>>

Next ==
  \/ ClearFile
  \/ Upload
  \/ Rerun
  \/ ReadCsv
  \/ ReadCsvLatin1
  \/ DetectNumeric
  \/ Sidebar
  \/ DateParse
  \/ DateRange
  \/ EmptyCheck
  \/ KeyMetrics
  \/ TimeSeries
  \/ GroupedBar
  \/ Distribution

Spec == Init /\ [][Next]_vars

(* ---------------- the paged panel over larger aggregations ------------- *)
\* An aggregation of n groups as the panel receives it, sums descending.
SyntheticAgg(n) == [i \in 1..n |-> [key |-> IntCell(i), sum |-> n + 1 - i]]

\* everything but the paged panel, at rest
RestIdle ==
  /\ pc = "done"
  /\ file = NoFile
  /\ reads = 0
  /\ df = <<>>
  /\ numeric_cols = {}
  /\ value_col = ""
  /\ group_col = ""
  /\ date_col = ""
  /\ stage = ""
  /\ filtered_df = <<>>
  /\ start_date = 0
  /\ end_date = 0
  /\ fail = "none"
  /\ message = ""
  /\ exception = "none"
  /\ kpi = NoKpi
  /\ ts_df = <<>>

restVars == <<pc, loadVars, paramVars, filterVars, haltVars, panelVars>>

\* the panel as first drawn for an aggregation of n groups
PageInit ==
  /\ RestIdle
  /\ \E n \in 0..MaxGroups :
       /\ bar_df = SyntheticAgg(n)
       /\ requested_page = 0
       /\ IF n = 0
          THEN /\ out = {"bar_warning"}
               /\ bars_per_page = 0
               /\ total_pages = 0
               /\ page = 0
               /\ page_df = <<>>
               /\ slider_bars = DefaultBars
               /\ slider_page = 0
               /\ slider_max = 0
          ELSE LET pg == Paging(SyntheticAgg(n), DefaultBars, 0, 0)
               IN /\ out = {"bar_chart"}
                  /\ bars_per_page = DefaultBars
                  /\ total_pages = pg.total_pages
                  /\ page = pg.page
                  /\ page_df = pg.page_df
                  /\ slider_bars = DefaultBars
                  /\ slider_page = pg.page
                  /\ slider_max = pg.total_pages

\* the user moves the "Bars per view" slider; the panel is drawn again
MoveBars ==
  /\ "bar_chart" \in out
  /\ \E P \in BarsPerPageOptions :
       PagedPanel(bar_df, {}, P, slider_page, slider_max)
  /\ UNCHANGED restVars

\* the user moves the "Page" slider within its range; the panel is drawn again
MovePage ==
  /\ "bar_chart" \in out
  /\ \E p \in 1..slider_max :
       PagedPanel(bar_df, {}, slider_bars, p, slider_max)
  /\ UNCHANGED restVars

\* another date range, group column or file changes the aggregation; the
\* panel is drawn again with the sliders the session holds
NewAggregation ==
  /\ \E n \in 0..MaxGroups :
       PagedPanel(SyntheticAgg(n), {}, slider_bars, slider_page, slider_max)
  /\ UNCHANGED restVars

PageNext ==
  \/ MoveBars
  \/ MovePage
  \/ NewAggregation

PageSpec == PageInit /\ [][PageNext]_vars

(* ------------------------------ properties ----------------------------- *)
\* the grouped panel ran to its end in this pass
GroupedDrawn == out \cap {"bar_chart", "bar_warning"} # {}

Sums(bar) == [j \in 1..Len(bar) |-> bar[j].sum]

\* the rows of tbl whose group key is key
RowsOfKey(tbl, gcol, key) == LET Has(r) == r[gcol] = key IN SelectSeq(tbl, Has)

\* C1: once the grouped aggregation of a pass exists, its sums add up to the
\* KPI total of the same filtered table, every filtered row's key (the
\* missing key included) has exactly one bucket, and that bucket holds the
\* sum of the rows with that key.
GroupSumsEqualKpiTotal ==
  GroupedDrawn =>
    /\ SumSeq(Sums(bar_df)) = kpi.total
    /\ \A i \in 1..Len(filtered_df) :
         /\ Cardinality({j \in 1..Len(bar_df) :
                           bar_df[j].key = filtered_df[i][group_col]}) = 1
         /\ \A j \in 1..Len(bar_df) :
              bar_df[j].key = filtered_df[i][group_col] =>
                bar_df[j].sum =
                  SumSeq(Metric(RowsOfKey(filtered_df, group_col, bar_df[j].key),
                                value_col))

\* a pass that grouped rows with and without a group key
MissingKeyGrouped ==
  /\ "bar_chart" \in out
  /\ \E i, j \in 1..Len(filtered_df) :
       /\ filtered_df[i][group_col] = Null
       /\ filtered_df[j][group_col] # Null

\* C2: for every page size P and the aggregation at hand (N rows, N >= 0),
\* the page count is ceil(N / P), page p is the rows at positions
\* (p-1)*P up to min(p*P, N), and the pages 1..total_pages put one after the
\* other are the aggregation itself; the panel drawn shows that count and
\* that slice.
PagesPartitionAggregation ==
  /\ \A P \in BarsPerPageOptions :
       LET N == Len(bar_df)
           tp == TotalPages(N, P)
       IN /\ tp \in 0..N
          /\ tp * P >= N
          /\ (tp - 1) * P < N
          /\ \A p \in 1..tp :
               PageSlice(bar_df, p, P) =
                 [i \in 1..(Min(p * P, N) - (p - 1) * P) |-> bar_df[(p - 1) * P + i]]
          /\ Concat([p \in 1..tp |-> PageSlice(bar_df, p, P)]) = bar_df
  /\ "bar_chart" \in out =>
       /\ total_pages = TotalPages(Len(bar_df), bars_per_page)
       /\ page_df = PageSlice(bar_df, page, bars_per_page)

\* the last of three pages, shorter than a full page
ShortLastPageShown ==
  /\ "bar_chart" \in out
  /\ total_pages = 3
  /\ page = 3
  /\ Len(page_df) \in 1..(bars_per_page - 1)

\* the first row of the filtered table that carries the group key
FirstRow(key) ==
  CHOOSE i \in 1..Len(filtered_df) :
    /\ filtered_df[i][group_col] = key
    /\ \A h \in 1..(i - 1) : filtered_df[h][group_col] # key

\* C3 as stated: among groups with equal sums the one whose key appears
\* first in the source table comes first.
TiesKeepFirstAppearanceOrder ==
  "bar_chart" \in out =>
    \A i, j \in 1..Len(bar_df) :
      (i < j /\ bar_df[i].sum = bar_df[j].sum) =>
        FirstRow(bar_df[i].key) < FirstRow(bar_df[j].key)

\* C3 as amended: the aggregation is in order of non-increasing sums and
\* holds each group exactly once; nothing more is fixed among equal sums.
SortedBySumDescending ==
  GroupedDrawn =>
    /\ \A i \in 1..(Len(bar_df) - 1) : bar_df[i].sum >= bar_df[i + 1].sum
    /\ \A i, j \in 1..Len(bar_df) : bar_df[i].key = bar_df[j].key => i = j
    /\ {bar_df[j].key : j \in 1..Len(bar_df)} =
         {filtered_df[i][group_col] : i \in 1..Len(filtered_df)}

\* two groups tie and are drawn against the order of their first rows
TieAgainstFirstAppearance ==
  /\ "bar_chart" \in out
  /\ \E i, j \in 1..Len(bar_df) :
       /\ i < j
       /\ bar_df[i].sum = bar_df[j].sum
       /\ FirstRow(bar_df[i].key) > FirstRow(bar_df[j].key)

\* C4: a pass that reached a failure state has stopped and has drawn no
\* KPI, series, grouped or distribution output; such outputs exist only in
\* a pass with a numeric column and a non-empty filtered table.
FailureIsTerminal ==
  /\ fail # "none" => pc = "stopped" /\ out \cap ResultOutputs = {}
  /\ out \cap ResultOutputs # {} /\ file.present =>
       /\ fail = "none"
       /\ numeric_cols # {}
       /\ value_col \in numeric_cols
       /\ filtered_df # <<>>

\* a pass stopped because the chosen date range holds no row
StoppedOnEmptyRange ==
  /\ pc = "stopped"
  /\ fail = "ResultEmpty"
  /\ stage = "date_filtered"

\* C5 as stated: the report of each failure state differs from the report
\* of the other two.
DistinctFailureReports ==
  \A f \in {"SchemaFailed", "DateEmpty", "ResultEmpty"} :
    fail = f =>
      \A g \in {"SchemaFailed", "DateEmpty", "ResultEmpty"} \ {f} :
        message # ReportOf(g)

\* the calendar days left in the filtered table
DaysLeft == {DateOf(filtered_df[i][date_col]) : i \in 1..Len(filtered_df)}

\* C6 as stated: a finished pass with a date column, a non-empty filtered
\* table and fewer than two days has the series notice, the KPIs, the
\* grouped page and the distribution.
PanelsSurviveShortSeries ==
  (/\ pc \in Ended
   /\ stage = "date_filtered"
   /\ filtered_df # <<>>
   /\ Cardinality(DaysLeft) < 2) =>
     {"kpis", "ts_warning", "bar_chart", "hist"} \subseteq out

\* C7 as stated: a stored page position beyond the last page shows the
\* last page.
RequestBeyondLastPageShowsLastPage ==
  ("bar_chart" \in out /\ requested_page > total_pages) => page = total_pages

\* C7 as amended: the page used for the slice is within 1..total_pages and
\* the slice is not empty; a stored position beyond the last page is not
\* shown as the last page, the slider is back at page 1; with page size 5
\* and 12 groups there are 3 pages and page 3 is the rows at positions 10, 11.
PageIndexWithinRange ==
  "bar_chart" \in out =>
    /\ page \in 1..total_pages
    /\ page_df = PageSlice(bar_df, page, bars_per_page)
    /\ page_df # <<>>
    /\ requested_page > total_pages => page = 1
    /\ (bars_per_page = 5 /\ Len(bar_df) = 12) =>
         /\ total_pages = 3
         /\ page = 3 => page_df = <<bar_df[11], bar_df[12]>>

\* page 4 was stored when 12 groups are drawn five to a page
PageFourOfThree ==
  /\ "bar_chart" \in out
  /\ bars_per_page = 5
  /\ Len(bar_df) = 12
  /\ requested_page = 4

\* C8: filtering the filtered table again with the same date column and
\* range gives the filtered table back, and no row of it has a missing date.
DateFilterIdempotent ==
  /\ stage \in {"parsed", "date_empty"} =>
       ParseAndDrop(filtered_df, date_col) = filtered_df
  /\ stage = "date_filtered" =>
       RangeFilter(ParseAndDrop(filtered_df, date_col), date_col,
                   start_date, end_date) = filtered_df
  /\ stage \in {"parsed", "date_empty", "date_filtered"} =>
       \A i \in 1..Len(filtered_df) : filtered_df[i][date_col].k = "dt"

\* a filter that dropped a row with an unparseable date and kept another
FilterDroppedAndKept ==
  /\ stage = "date_filtered"
  /\ filtered_df # <<>>
  /\ Len(filtered_df) < Len(df)
  /\ \E i \in 1..Len(df) : ToDatetime(df[i][date_col]) = Null

\* C9 as stated: the fallback read happens once and only after a decode
\* failure, and a pass whose file cannot be read ends with a reported
\* message, not with an exception.
LoadFailureIsReported ==
  /\ reads <= 2
  /\ reads = 2 => ~file.utf8
  /\ (pc \in Ended /\ file.present /\ ~file.csv) =>
       /\ exception = "none"
       /\ message # ""

\* C10 as stated: whatever columns are chosen, the metric values the pass
\* reads are those of the loaded table, and a finished pass with a
\* non-empty filtered table has its KPIs and its grouped page.
EveryColumnChoiceReady ==
  /\ stage # "" =>
       \A i \in 1..Len(filtered_df) :
         \E j \in 1..Len(df) : filtered_df[i][value_col] = df[j][value_col]
  /\ (pc \in Ended /\ stage # "" /\ filtered_df # <<>>) =>
       /\ pc = "done"
       /\ exception = "none"
       /\ {"kpis", "bar_chart"} \subseteq out

====
